---- MODULE Spec2Model ----
(***************************************************************************)
(* A model of the JupyterLite dynamic loader for the Next.js integration   *)
(* (utils/jupyterlite-loader.ts): the instance registry and the container  *)
(* bootstrap (Spec, SpecMain, SpecAnon), the federated-extension batch     *)
(* (SpecLoad), the theme application (SpecTheme) and the clean-up timer    *)
(* (SpecTimer); and of the mount effect of JupyterLiteComponent            *)
(* (SpecComponent).                                                        *)
(***************************************************************************)
EXTENDS Integers, Sequences, FiniteSets, TLC

VARIABLES
  instances,      \* the module-level Map, as its entries in insertion order
  windowJupyter,  \* window.jupyter
  windowBridge,   \* window.jupyterKernelBridge
  now,            \* the value Date.now() returns
  page,           \* the container elements of this page
  bpc,            \* per container: where its initializeInContainer run stands
  cfg,            \* per container: the config of its latest run
  lastCall,       \* what the most recent registry call did
  extensionData,  \* configData.federated_extensions: the descriptors' names
  lpc,            \* per container: where its loadJupyterLiteBootstrap run stands
  comp,           \* per container: where each loadComponent run of its batch stands
  extensions,     \* per container: the outcomes Promise.allSettled returned
  labDefined,     \* whether window._JUPYTERLAB is an object
  exposed,        \* the names that have an entry in window._JUPYTERLAB
  headScripts,    \* per url: the script elements appended to document.head
  sharingCalls,   \* the calls of window.__webpack_init_sharing__('default')
  initCalls,      \* per name: the calls of that bundle's init
  reasons,        \* per container: what each loadComponent run rejected with
  classes,        \* per container: which of jp-mod-dark, jp-mod-light it carries
  indicator,      \* per container: its #jupyterlite-loading-indicator element
  stored,         \* per storage name: the settings entry of the themes key
  osPref,         \* window.matchMedia('(prefers-color-scheme: dark)')
  tpc,            \* per container: where its applyThemeToContainer run stands
  tcfg,           \* per container: the config of that run
  tsettings,      \* per container: the local settings of applyAutoTheme
  tpath,          \* per container: the block that set the mode classes last
  io,             \* per container: the store accesses of that run
  timers,         \* per container: the callbacks setTimeout holds for it
  effects,        \* the runs of the component's mount effect, in order
  ui              \* the component's isLoading, error and initialized states

regVars == <<instances, windowJupyter, windowBridge, now, page, bpc, cfg, lastCall>>

loadVars == <<extensionData, lpc, comp, extensions, labDefined, exposed,
              headScripts, sharingCalls, initCalls, reasons>>

domVars == <<classes, indicator>>

themeVars == <<stored, osPref, tpc, tcfg, tsettings, tpath, io>>

reactVars == <<effects, ui>>

vars == <<regVars, loadVars, domVars, themeVars, timers, reactVars>>

----------------------------------------------------------------------------
(* Bounds of the model. *)

\* Date.now() runs from 0 to MaxClock.
MaxClock == 1

\* The configuration lists at most MaxExtensions federated extensions.
MaxExtensions == 2

\* At most MaxRuns loadComponent runs are started on a page.
MaxRuns == 4

\* How many callbacks of setTimeout may be pending for one container.
MaxTimers == 2

\* How many times the component's mount effect runs.
MaxEffects == 3

----------------------------------------------------------------------------
(* Container elements: the first carries an id attribute, the other two   *)
(* carry none (container.id is the empty string). A page holds two of them.*)

Containers == {"c1", "c2", "c3"}

ContainerId == [c \in Containers |-> IF c = "c1" THEN "lab" ELSE ""]

Undefined == "undefined"
Handle == "handle"
GlobalValues == {Undefined, Handle}

\* JupyterLiteConfig, the fields initializeInContainer reads. kernelBridgeConfig
\* is "absent" or present with exposeToConsole "unset" or "true".
KernelBridgeConfigs == {"absent", "unset", "true"}

Configs == [enableKernelBridge : BOOLEAN, kernelBridgeConfig : KernelBridgeConfigs]

\* The shapes of jupyterliteModule: it exposes main, only default, or neither.
Modules == {"main", "default", "none"}

\* The page of Spec: one container with an id and one without.
LabPage == {"c1", "c2"}

\* lastCall: the registry call made last, whether it threw, whether it deleted
\* an entry, and how many times it ran the global teardown (the two deletes).
NoCall == [op |-> "none", c |-> "none", threw |-> FALSE, removed |-> FALSE,
           teardown |-> 0]

NoConfig == [enableKernelBridge |-> FALSE, kernelBridgeConfig |-> "absent"]

----------------------------------------------------------------------------
(* The instance registry. *)

Ids(m) == {m[i].id : i \in 1..Len(m)}

IndexOfId(m, id) == CHOOSE i \in 1..Len(m) : m[i].id = id

\* Map.prototype.set: an existing key keeps its place and takes the new value,
\* a new key is appended.
MapSet(m, id, value) ==
  LET entry == [id |-> id, container |-> value.container,
                jupyter |-> value.jupyter, bridge |-> value.bridge]
  IN IF id \in Ids(m)
       THEN [m EXCEPT ![IndexOfId(m, id)] = entry]
       ELSE Append(m, entry)

\* Map.prototype.delete of the entry at position i.
MapDeleteAt(m, i) == SubSeq(m, 1, i - 1) \o SubSeq(m, i + 1, Len(m))

\* const instanceId = container.id || `container-${Date.now()}`
InstanceId(c, t) ==
  IF ContainerId[c] # "" THEN ContainerId[c] ELSE "container-" \o ToString(t)

\* The positions of the entries whose container is c.
RecordsOf(m, c) == {i \in 1..Len(m) : m[i].container = c}

\* initializeKernelBridgeForContainer(container): it never throws.
initializeKernelBridgeForContainer(c) ==
  /\ instances' = MapSet(instances, InstanceId(c, now),
                         [container |-> c, jupyter |-> windowJupyter,
                          bridge |-> windowBridge])
  /\ lastCall' = [op |-> "register", c |-> c, threw |-> FALSE,
                  removed |-> FALSE, teardown |-> 0]
  /\ UNCHANGED <<windowJupyter, windowBridge>>

\* The for-loop of cleanupJupyterLiteInstance: the first entry, in insertion
\* order, whose container is c is deleted; then the loop breaks.
DeleteFirstOf(m, c) ==
  IF RecordsOf(m, c) = {}
    THEN m
    ELSE MapDeleteAt(m, CHOOSE i \in RecordsOf(m, c) :
                          \A j \in RecordsOf(m, c) : i <= j)

\* A variant that also treats a registry of one remaining entry as empty.
IsLastInstance_OffByOne(m) == Len(m) <= 1

\* if (instances.size === 0) after the loop
IsLastInstance(m) == Len(m) = 0

\* A variant that yields between the loop and the size check: the call's step
\* deletes the entry and leaves the page-global handles for later.
CleanupEffect_Yielding(m, j, b, c) ==
  [instances |-> DeleteFirstOf(m, c),
   windowJupyter |-> j,
   windowBridge |-> b,
   threw |-> FALSE,
   removed |-> RecordsOf(m, c) # {},
   teardown |-> 0]

\* What cleanupJupyterLiteInstance(container) makes of a registry m and the
\* two page-global handles j and b; it never throws.
CleanupEffect(m, j, b, c) ==
  LET after == DeleteFirstOf(m, c)
  IN [instances |-> after,
      windowJupyter |-> IF IsLastInstance(after) THEN Undefined ELSE j,
      windowBridge |-> IF IsLastInstance(after) THEN Undefined ELSE b,
      threw |-> FALSE,
      removed |-> RecordsOf(m, c) # {},
      teardown |-> IF IsLastInstance(after) THEN 1 ELSE 0]

\* cleanupJupyterLiteInstance(container)
cleanupJupyterLiteInstance(c) ==
  LET e == CleanupEffect(instances, windowJupyter, windowBridge, c)
  IN /\ instances' = e.instances
     /\ windowJupyter' = e.windowJupyter
     /\ windowBridge' = e.windowBridge
     /\ lastCall' = [op |-> "cleanup", c |-> c, threw |-> e.threw,
                     removed |-> e.removed, teardown |-> e.teardown]

----------------------------------------------------------------------------
(* initializeInContainer. *)

\* A variant that looks at exposeToConsole alone.
BridgeRequested_ExposeOnly(config) == config.kernelBridgeConfig = "true"

\* config.enableKernelBridge && config.kernelBridgeConfig?.exposeToConsole
BridgeRequested(config) ==
  config.enableKernelBridge /\ config.kernelBridgeConfig = "true"

\* loadingIndicator.classList.add('hidden'), when the container holds one.
HideIndicator(ind) == IF ind = "absent" THEN "absent" ELSE "hidden"

\* A variant of the timer's callback that leaves the mode classes in place.
TimerClasses_Keep(cls) == cls

\* container.classList.remove('jp-mod-dark', 'jp-mod-light') of the callback
TimerClasses(cls) == cls \ {"jp-mod-dark", "jp-mod-light"}

\* A variant that takes every module to expose a callable.
ExposesCallable_Any(module) == TRUE

\* if (jupyterliteModule.main) ... else if (jupyterliteModule.default) ...
ExposesCallable(module) == module \in {"main", "default"}

\* initializeInContainer(jupyterliteModule, container, config) up to its
\* await: the loading indicator is hidden; the module's callable is invoked
\* and awaited, or, when the module exposes neither main nor default, the
\* function throws.
InitializeInContainer(c, module, config) ==
  /\ bpc[c] \in {"idle", "ready", "failed"}
  /\ indicator' = [indicator EXCEPT ![c] = HideIndicator(@)]
  /\ bpc' = [bpc EXCEPT ![c] =
               IF ExposesCallable(module) THEN "awaitMain" ELSE "failed"]
  /\ cfg' = [cfg EXCEPT ![c] = config]
  /\ UNCHANGED <<instances, windowJupyter, windowBridge, now, page, lastCall>>
  /\ UNCHANGED <<loadVars, classes, themeVars, timers, reactVars>>

\* The call, with any module and any config.
InitializeInContainerCall(c) ==
  \E module \in Modules, config \in Configs :
    InitializeInContainer(c, module, config)

\* The timers of a page that the specification does not follow.
NoTimers == [c \in {} |-> 0]

\* setTimeout(() => { ... }, 1000): one more callback is pending for the
\* container, on a page whose timers are followed.
SetTimeout(t, c) == IF c \in DOMAIN t THEN [t EXCEPT ![c] = @ + 1] ELSE t

\* The awaited main(container) resolves: the bridge is registered when the
\* config asks for it, the clean-up timer is set, and the function returns.
MainResolves(c) ==
  /\ bpc[c] = "awaitMain"
  /\ IF BridgeRequested(cfg[c])
       THEN initializeKernelBridgeForContainer(c)
       ELSE UNCHANGED <<instances, windowJupyter, windowBridge, lastCall>>
  /\ bpc' = [bpc EXCEPT ![c] = "ready"]
  /\ UNCHANGED <<now, page, cfg>>
  /\ timers' = SetTimeout(timers, c)
  /\ UNCHANGED <<loadVars, domVars, themeVars, reactVars>>

\* The awaited main(container) rejects: the catch block rethrows.
MainRejects(c) ==
  /\ bpc[c] = "awaitMain"
  /\ bpc' = [bpc EXCEPT ![c] = "failed"]
  /\ UNCHANGED <<instances, windowJupyter, windowBridge, now, page, cfg, lastCall>>
  /\ UNCHANGED <<loadVars, domVars, themeVars, timers, reactVars>>

\* The callback of a timer runs: the loading indicator the run had found is
\* removed from the container, and so are both mode classes.
TimerFires(c) ==
  /\ c \in DOMAIN timers
  /\ timers[c] > 0
  /\ timers' = [timers EXCEPT ![c] = @ - 1]
  /\ indicator' = [indicator EXCEPT ![c] = "absent"]
  /\ classes' = [classes EXCEPT ![c] = TimerClasses(@)]
  /\ UNCHANGED <<regVars, loadVars, themeVars, reactVars>>

\* The exported teardown, callable for any container at any time.
Cleanup(c) ==
  /\ cleanupJupyterLiteInstance(c)
  /\ UNCHANGED <<now, page, bpc, cfg>>
  /\ UNCHANGED <<loadVars, domVars, themeVars, timers, reactVars>>

\* The embedded application, once a main entry has been invoked, installs
\* (or removes) the page-global handles window.jupyter and
\* window.jupyterKernelBridge.
AppSetsGlobals ==
  /\ \E c \in page : bpc[c] \in {"awaitMain", "ready"}
  /\ \E v \in GlobalValues :
       /\ windowJupyter' = v
       /\ windowBridge' = v
  /\ UNCHANGED <<instances, now, page, bpc, cfg, lastCall>>
  /\ UNCHANGED <<loadVars, domVars, themeVars, timers, reactVars>>

\* Time passes.
Tick ==
  /\ now < MaxClock
  /\ now' = now + 1
  /\ UNCHANGED <<instances, windowJupyter, windowBridge, page, bpc, cfg, lastCall>>
  /\ UNCHANGED <<loadVars, domVars, themeVars, timers, reactVars>>

----------------------------------------------------------------------------
(* loadJupyterLiteBootstrap: the batch of federated extensions and the     *)
(* main entry script.                                                      *)

\* The descriptors configData.federated_extensions may list, in order.
AllExtensions ==
  << [name |-> "p", load |-> "static/remoteEntry.p.js"],
     [name |-> "q", load |-> "static/remoteEntry.q.js"],
     [name |-> "r", load |-> "static/remoteEntry.r.js"] >>

Min(a, b) == IF a <= b THEN a ELSE b

\* The lists of the model: the first n descriptors, n up to MaxExtensions.
ExtensionLists ==
  {SubSeq(AllExtensions, 1, n) : n \in 0..Min(MaxExtensions, Len(AllExtensions))}

Names == {AllExtensions[i].name : i \in 1..Len(AllExtensions)}

\* configData.fullLabextensionsUrl || '/extensions'
LabExtensionUrl == "/extensions"

\* `${labExtensionUrl}/${data.name}/${data.load}`
ComponentUrl(data) == LabExtensionUrl \o "/" \o data.name \o "/" \o data.load

BootstrapUrl == "/bootstrap.js"

Urls == {ComponentUrl(AllExtensions[i]) : i \in 1..Len(AllExtensions)}
          \cup {BootstrapUrl}

\* Where a loadComponent run stands: awaiting its script, awaiting
\* __webpack_init_sharing__, awaiting container.init, or settled.
Pending == {"script", "sharing", "init"}
Rejected == {"rejScript", "rejSharing", "rejLookup", "rejInit"}
IsSettled(pc) == pc = "fulfilled" \/ pc \in Rejected

\* The reason of a run that has not rejected.
NoReason == [name |-> "none", message |-> ""]

\* new Error(`Failed to load script: ${url}`)
LoadScriptError(url) ==
  [name |-> "Error", message |-> "Failed to load script: " \o url]

\* What reading a property of undefined throws.
LookupTypeError ==
  [name |-> "TypeError", message |-> "window._JUPYTERLAB is undefined"]

\* What __webpack_init_sharing__ and a bundle's init reject with is theirs.
SharingError == [name |-> "Error", message |-> "init sharing"]
InitError == [name |-> "Error", message |-> "container init"]

\* A variant that appends no second script element for a url.
AppendScript_Dedup(head, url) ==
  IF head[url] = 0 THEN [head EXCEPT ![url] = 1] ELSE head

\* loadScript(url): one script element is appended to document.head.
AppendScript(head, url) == [head EXCEPT ![url] = @ + 1]

RECURSIVE AppendScripts(_, _, _)
\* The synchronous part of extensionData.map(async ...): every loadComponent
\* run starts and reaches its loadScript, descriptors i..Len(list) in order.
AppendScripts(head, list, i) ==
  IF i > Len(list)
    THEN head
    ELSE AppendScripts(AppendScript(head, ComponentUrl(list[i])), list, i + 1)

\* A variant that gives up on script elements that have fired no event: a run
\* still awaiting its script counts as settled.
AllSettledDone_TimedOut(cs) ==
  \A i \in 1..Len(cs) : cs[i] = "script" \/ IsSettled(cs[i])

\* A variant that resolves as soon as one promise of the batch has settled.
AllSettledDone_Any(cs) == cs = <<>> \/ \E i \in 1..Len(cs) : IsSettled(cs[i])

\* Promise.allSettled resolves once every promise of the batch has settled...
AllSettledDone(cs) == \A i \in 1..Len(cs) : IsSettled(cs[i])

\* ... with one outcome per promise, in order ...
AllSettledOutcomes(cs) ==
  [i \in 1..Len(cs) |-> IF cs[i] = "fulfilled" THEN "fulfilled" ELSE "rejected"]

\* A variant that rejects when __webpack_init_sharing__ has rejected in a run.
BatchRejects_OnSharing(cs) == \E i \in 1..Len(cs) : cs[i] = "rejSharing"

\* A variant that behaves as Promise.all: it rejects with the first rejection.
BatchRejects_PromiseAll(cs) == \E i \in 1..Len(cs) : cs[i] \in Rejected

\* ... and it never rejects.
BatchRejects(cs) == FALSE

RECURSIVE RunsStarted(_, _)
\* The loadComponent runs started so far by the containers in cs.
RunsStarted(cs, started) ==
  IF cs = {}
    THEN 0
    ELSE LET c == CHOOSE x \in cs : TRUE
         IN Len(started[c]) + RunsStarted(cs \ {c}, started)

\* loadJupyterLiteBootstrap(container, config) is called with the config the
\* container holds (cfg): the configuration data is read and every
\* loadComponent run of the batch starts.
LoadBootstrapCall(c) ==
  /\ lpc[c] = "idle"
  /\ RunsStarted(Containers, comp) + Len(extensionData) <= MaxRuns
  /\ lpc' = [lpc EXCEPT ![c] = "batch"]
  /\ comp' = [comp EXCEPT ![c] = [i \in 1..Len(extensionData) |-> "script"]]
  /\ headScripts' = AppendScripts(headScripts, extensionData, 1)
  /\ reasons' = [reasons EXCEPT ![c] =
                   [i \in 1..Len(extensionData) |-> NoReason]]
  /\ UNCHANGED <<extensionData, extensions, labDefined, exposed, sharingCalls,
                 initCalls>>
  /\ UNCHANGED <<regVars, domVars, themeVars, timers, reactVars>>

\* A variant of the step after loadScript that goes on to the lookup without
\* initialising the shared scope.
SharingCallsAfter_Skipped(n) == n

\* A variant of the step after loadScript that initialises the shared scope
\* only when no call has been made yet.
SharingCallsAfter_Once(n) == IF n = 0 THEN 1 ELSE n

\* await window.__webpack_init_sharing__('default'): one more call.
SharingCallsAfter(n) == n + 1

\* A variant of the step after the lookup that calls a bundle's init only
\* when no run on the page has called it yet.
InitCallsAfter_Once(calls, name) ==
  IF calls[name] = 0 THEN [calls EXCEPT ![name] = 1] ELSE calls

\* await container.init(window.__webpack_share_scopes__.default): one more
\* call of the init of the bundle registered under name.
InitCallsAfter(calls, name) == [calls EXCEPT ![name] = @ + 1]

\* script.onload of a component's script: the bundle has executed (and has or
\* has not put itself into window._JUPYTERLAB); loadComponent goes on to call
\* window.__webpack_init_sharing__('default') and awaits it.
ScriptLoaded(c, i) ==
  /\ lpc[c] # "idle"
  /\ i \in 1..Len(comp[c])
  /\ comp[c][i] = "script"
  /\ comp' = [comp EXCEPT ![c][i] = "sharing"]
  /\ sharingCalls' = SharingCallsAfter(sharingCalls)
  /\ \E exposes \in BOOLEAN :
       IF exposes
         THEN /\ labDefined' = TRUE
              /\ exposed' = exposed \cup {extensionData[i].name}
         ELSE UNCHANGED <<labDefined, exposed>>
  /\ UNCHANGED <<extensionData, reasons, lpc, extensions, headScripts,
                 initCalls>>
  /\ UNCHANGED <<regVars, domVars, themeVars, timers, reactVars>>

\* script.onerror of a component's script: loadScript rejects, and so does
\* loadComponent.
ScriptError(c, i) ==
  /\ lpc[c] # "idle"
  /\ i \in 1..Len(comp[c])
  /\ comp[c][i] = "script"
  /\ comp' = [comp EXCEPT ![c][i] = "rejScript"]
  /\ reasons' = [reasons EXCEPT ![c][i] = LoadScriptError(ComponentUrl(extensionData[i]))]
  /\ UNCHANGED <<extensionData, lpc, extensions, labDefined, exposed,
                 headScripts, sharingCalls, initCalls>>
  /\ UNCHANGED <<regVars, domVars, themeVars, timers, reactVars>>

\* __webpack_init_sharing__ resolves: window._JUPYTERLAB[scope] is read (a
\* TypeError when window._JUPYTERLAB is undefined); an entry's init is called
\* and awaited, no entry ends the run.
SharingResolved(c, i) ==
  /\ i \in 1..Len(comp[c])
  /\ comp[c][i] = "sharing"
  /\ IF ~labDefined
       THEN /\ comp' = [comp EXCEPT ![c][i] = "rejLookup"]
            /\ reasons' = [reasons EXCEPT ![c][i] = LookupTypeError]
            /\ UNCHANGED initCalls
       ELSE IF extensionData[i].name \in exposed
         THEN /\ comp' = [comp EXCEPT ![c][i] = "init"]
              /\ initCalls' = InitCallsAfter(initCalls, extensionData[i].name)
              /\ UNCHANGED reasons
         ELSE /\ comp' = [comp EXCEPT ![c][i] = "fulfilled"]
              /\ UNCHANGED <<initCalls, reasons>>
  /\ UNCHANGED <<extensionData, lpc, extensions, labDefined, exposed,
                 headScripts, sharingCalls>>
  /\ UNCHANGED <<regVars, domVars, themeVars, timers, reactVars>>

\* __webpack_init_sharing__ rejects: loadComponent rejects.
SharingRejected(c, i) ==
  /\ i \in 1..Len(comp[c])
  /\ comp[c][i] = "sharing"
  /\ comp' = [comp EXCEPT ![c][i] = "rejSharing"]
  /\ reasons' = [reasons EXCEPT ![c][i] = SharingError]
  /\ UNCHANGED <<extensionData, lpc, extensions, labDefined, exposed,
                 headScripts, sharingCalls, initCalls>>
  /\ UNCHANGED <<regVars, domVars, themeVars, timers, reactVars>>

\* container.init(...) resolves: loadComponent resolves.
InitResolved(c, i) ==
  /\ i \in 1..Len(comp[c])
  /\ comp[c][i] = "init"
  /\ comp' = [comp EXCEPT ![c][i] = "fulfilled"]
  /\ UNCHANGED <<extensionData, reasons, lpc, extensions, labDefined, exposed,
                 headScripts, sharingCalls, initCalls>>
  /\ UNCHANGED <<regVars, domVars, themeVars, timers, reactVars>>

\* container.init(...) throws or rejects: loadComponent rejects.
InitRejected(c, i) ==
  /\ i \in 1..Len(comp[c])
  /\ comp[c][i] = "init"
  /\ comp' = [comp EXCEPT ![c][i] = "rejInit"]
  /\ reasons' = [reasons EXCEPT ![c][i] = InitError]
  /\ UNCHANGED <<extensionData, lpc, extensions, labDefined, exposed,
                 headScripts, sharingCalls, initCalls>>
  /\ UNCHANGED <<regVars, domVars, themeVars, timers, reactVars>>

\* The await of the batch ends: the outcomes are logged and
\* loadJupyterLiteMain appends the script of /bootstrap.js; a rejected batch
\* would reject loadJupyterLiteBootstrap.
BatchSettled(c) ==
  /\ lpc[c] = "batch"
  /\ IF BatchRejects(comp[c])
       THEN /\ lpc' = [lpc EXCEPT ![c] = "batchRejected"]
            /\ UNCHANGED <<extensions, headScripts>>
       ELSE /\ AllSettledDone(comp[c])
            /\ extensions' = [extensions EXCEPT ![c] = AllSettledOutcomes(comp[c])]
            /\ headScripts' = AppendScript(headScripts, BootstrapUrl)
            /\ lpc' = [lpc EXCEPT ![c] = "mainLoad"]
  /\ UNCHANGED <<extensionData, reasons, comp, labDefined, exposed,
                 sharingCalls, initCalls>>
  /\ UNCHANGED <<regVars, domVars, themeVars, timers, reactVars>>

\* script.onload of /bootstrap.js: loadJupyterLiteMain resolves with
\* { main: () => Promise.resolve() } and initializeInContainer is called with
\* it: the loading indicator is hidden, main(container) is invoked and awaited.
MainScriptLoaded(c) ==
  /\ lpc[c] = "mainLoad"
  /\ lpc' = [lpc EXCEPT ![c] = "initializing"]
  /\ bpc' = [bpc EXCEPT ![c] = "awaitMain"]
  /\ indicator' = [indicator EXCEPT ![c] = HideIndicator(@)]
  /\ UNCHANGED <<extensionData, reasons, comp, extensions, labDefined, exposed,
                 headScripts, sharingCalls, initCalls>>
  /\ UNCHANGED <<instances, windowJupyter, windowBridge, now, page, cfg, lastCall>>
  /\ UNCHANGED <<classes, themeVars, timers, reactVars>>

\* script.onerror of /bootstrap.js: loadJupyterLiteMain rejects, and so does
\* loadJupyterLiteBootstrap.
MainScriptError(c) ==
  /\ lpc[c] = "mainLoad"
  /\ lpc' = [lpc EXCEPT ![c] = "mainRejected"]
  /\ UNCHANGED <<extensionData, reasons, comp, extensions, labDefined, exposed,
                 headScripts, sharingCalls, initCalls>>
  /\ UNCHANGED <<regVars, domVars, themeVars, timers, reactVars>>

----------------------------------------------------------------------------
(* applyThemeToContainer and applyAutoTheme. Strings whose characters the  *)
(* code inspects are sequences of one-character strings.                   *)

Quote == "\""

\* DarkBlob: the stored settings of the JupyterLab Dark theme
DarkBlob ==
  <<"{", "\"", "t", "h", "e", "m", "e", "\"", ":", "\"", "J", "u", "p",
    "y", "t", "e", "r", "L", "a", "b", " ", "D", "a", "r", "k", "\"", "}">>

\* LightBlob: the stored settings of the JupyterLab Light theme, spaced out
LightBlob ==
  <<"{", "\n", " ", "\"", "t", "h", "e", "m", "e", "\"", " ", ":", " ",
    "\"", "J", "u", "p", "y", "t", "e", "r", "L", "a", "b", " ", "L", "i",
    "g", "h", "t", "\"", "\n", "}">>

\* NightBlob: an upper-case key and a name holding "night" in mixed case
NightBlob ==
  <<"{", "\"", "T", "H", "E", "M", "E", "\"", ":", "\"", "M", "i", "d",
    "N", "i", "g", "h", "t", "\"", "}">>

\* NoThemeBlob: stored settings that name no theme
NoThemeBlob ==
  <<"{", "\"", "o", "v", "e", "r", "r", "i", "d", "e", "s", "\"", ":", "{",
    "}", "}">>

\* BlackBlob: an upper-case name holding "black"
BlackBlob ==
  <<"{", "\"", "t", "h", "e", "m", "e", "\"", ":", "\"", "B", "L", "A",
    "C", "K", "B", "O", "A", "R", "D", "\"", "}">>

\* DarculaBlob: the key theme-scrollbars first, and a name that holds none of
\* the three words
DarculaBlob ==
  <<"{", "\"", "t", "h", "e", "m", "e", "-", "s", "c", "r", "o", "l", "l",
    "b", "a", "r", "s", "\"", ":", "t", "r", "u", "e", ",", "\"", "t", "h",
    "e", "m", "e", "\"", ":", "\"", "D", "a", "r", "c", "u", "l", "a",
    "\"", "}">>

ThemeKey == <<"t", "h", "e", "m", "e">>
DarkWord == <<"d", "a", "r", "k">>
NightWord == <<"n", "i", "g", "h", "t">>
BlackWord == <<"b", "l", "a", "c", "k">>

DarkClass == "jp-mod-dark"
LightClass == "jp-mod-light"
ModeClasses == {DarkClass, LightClass}

\* What getItem can yield: null, or a string (the empty one included).
Null == [kind |-> "null", text |-> <<>>]
Text(t) == [kind |-> "string", text |-> t]

Contents ==
  {Null, Text(<<>>), Text(DarkBlob), Text(LightBlob), Text(NightBlob),
   Text(NoThemeBlob), Text(BlackBlob), Text(DarculaBlob)}

DefaultStorageName == "JupyterLite Storage"
StorageNames == {DefaultStorageName, "custom"}

OsPrefs == {"dark", "light", "unavailable"}

\* JupyterLiteConfig, the fields applyThemeToContainer and applyAutoTheme
\* read; an unset theme is "unset", an unset settingsStorageName is "".
ThemeConfigs ==
  [theme : {"dark", "light", "auto", "unset"},
   showLoadingIndicator : BOOLEAN,
   settingsStorageName : {"", "custom"}]

NoThemeConfig ==
  [theme |-> "unset", showLoadingIndicator |-> FALSE, settingsStorageName |-> ""]

NoIo == [imports |-> 0, opens |-> 0, reads |-> 0]

UpperCase ==
  <<"A", "B", "C", "D", "E", "F", "G", "H", "I", "J", "K", "L", "M",
    "N", "O", "P", "Q", "R", "S", "T", "U", "V", "W", "X", "Y", "Z">>

LowerCase ==
  <<"a", "b", "c", "d", "e", "f", "g", "h", "i", "j", "k", "l", "m",
    "n", "o", "p", "q", "r", "s", "t", "u", "v", "w", "x", "y", "z">>

ToLowerChar(ch) ==
  IF \E k \in 1..Len(UpperCase) : UpperCase[k] = ch
    THEN LowerCase[CHOOSE k \in 1..Len(UpperCase) : UpperCase[k] = ch]
    ELSE ch

\* String.prototype.toLowerCase
ToLowerCase(t) == [i \in 1..Len(t) |-> ToLowerChar(t[i])]

\* String.prototype.includes
Includes(t, word) ==
  \E p \in 1..(Len(t) - Len(word) + 1) : SubSeq(t, p, p + Len(word) - 1) = word

\* \s of the regular expression
IsSpace(ch) == ch \in {" ", "\t", "\n", "\r"}

RECURSIVE SkipSpaces(_, _)
\* \s*: the first position from p on that holds no white space.
SkipSpaces(t, p) ==
  IF p <= Len(t) /\ IsSpace(t[p]) THEN SkipSpaces(t, p + 1) ELSE p

RECURSIVE SkipName(_, _)
\* [^"]+: the first position from p on that holds a quote (or the end).
SkipName(t, p) ==
  IF p <= Len(t) /\ t[p] # Quote THEN SkipName(t, p + 1) ELSE p

\* /"theme"\s*:\s*"([^"]+)"/i tried at position p: the group it captures, or
\* the empty sequence when it does not match there.
ThemeRegexAt(t, p) ==
  LET colon == SkipSpaces(t, p + 7)
      open == SkipSpaces(t, colon + 1)
      close == SkipName(t, open + 1)
  IN IF /\ p + 6 <= Len(t)
        /\ t[p] = Quote
        /\ ToLowerCase(SubSeq(t, p + 1, p + 5)) = ThemeKey
        /\ t[p + 6] = Quote
        /\ colon <= Len(t)
        /\ t[colon] = ":"
        /\ open <= Len(t)
        /\ t[open] = Quote
        /\ close <= Len(t)
        /\ close > open + 1
       THEN SubSeq(t, open + 1, close - 1)
       ELSE <<>>

\* settings.match(themeRegex): matches[1] of the leftmost match, or the empty
\* sequence when there is none.
ThemeRegexMatch(t) ==
  LET hits == {p \in 1..Len(t) : ThemeRegexAt(t, p) # <<>>}
  IN IF hits = {}
       THEN <<>>
       ELSE ThemeRegexAt(t, CHOOSE p \in hits : \A q \in hits : p <= q)

\* A variant that knows the words dark and night only.
IsDarkName_NoBlack(name) ==
  \/ Includes(name, DarkWord)
  \/ Includes(name, NightWord)

\* themeName.includes('dark') || ... ('night') || ... ('black')
IsDarkName(name) ==
  \/ Includes(name, DarkWord)
  \/ Includes(name, NightWord)
  \/ Includes(name, BlackWord)

\* if (settings): a non-empty string
Truthy(v) == v.kind = "string" /\ Len(v.text) > 0

\* isDarkTheme of a stored settings string: false unless a theme name is
\* matched and its lower-cased form holds one of the three words.
IsDarkStored(t) ==
  LET name == ThemeRegexMatch(t)
  IN name # <<>> /\ IsDarkName(ToLowerCase(name))

ModeClass(isDark) == IF isDark THEN DarkClass ELSE LightClass

\* A variant that takes the light mode whenever the stored settings are not
\* truthy, without asking the operating system.
AutoTryEffect_IgnoreOs(cls, v, os) ==
  [threw |-> FALSE,
   classes |-> (cls \ ModeClasses)
                 \cup {ModeClass(Truthy(v) /\ IsDarkStored(v.text))}]

\* A variant that asks the operating system whenever no theme name comes out
\* of the store, an entry without a name included.
AutoTryEffect_OsWhenNoName(cls, v, os) ==
  IF Truthy(v) /\ ThemeRegexMatch(v.text) # <<>>
    THEN [threw |-> FALSE,
          classes |-> (cls \ ModeClasses) \cup {ModeClass(IsDarkStored(v.text))}]
    ELSE IF os = "unavailable"
      THEN [threw |-> TRUE, classes |-> cls]
      ELSE [threw |-> FALSE,
            classes |-> (cls \ ModeClasses) \cup {ModeClass(os = "dark")}]

\* A variant that asks the operating system first and the store only when
\* that signal is unavailable.
AutoTryEffect_OsFirst(cls, v, os) ==
  IF os # "unavailable"
    THEN [threw |-> FALSE, classes |-> (cls \ ModeClasses) \cup {ModeClass(os = "dark")}]
    ELSE IF Truthy(v)
      THEN [threw |-> FALSE,
            classes |-> (cls \ ModeClasses) \cup {ModeClass(IsDarkStored(v.text))}]
      ELSE [threw |-> TRUE, classes |-> cls]

\* The try block of applyAutoTheme once getItem has yielded v: the mode comes
\* from the stored settings when they are truthy and from matchMedia
\* otherwise (which throws when unavailable); both mode classes are removed
\* and the mode's class is added.
AutoTryEffect(cls, v, os) ==
  IF Truthy(v)
    THEN [threw |-> FALSE,
          classes |-> (cls \ ModeClasses) \cup {ModeClass(IsDarkStored(v.text))}]
    ELSE IF os = "unavailable"
      THEN [threw |-> TRUE, classes |-> cls]
      ELSE [threw |-> FALSE,
            classes |-> (cls \ ModeClasses) \cup {ModeClass(os = "dark")}]

\* The catch block of applyAutoTheme: matchMedia is asked (it throws when
\* unavailable) and the mode's class is added; none is removed.
AutoCatchEffect(cls, os) ==
  IF os = "unavailable"
    THEN [threw |-> TRUE, classes |-> cls]
    ELSE [threw |-> FALSE, classes |-> cls \cup {ModeClass(os = "dark")}]

\* The catch block of applyThemeToContainer: the light class is added and the
\* dark one removed.
OuterCatchClasses(cls) == (cls \cup {LightClass}) \ {DarkClass}

\* A variant of the explicit branches that adds the class of the theme and
\* leaves the other one in place.
ExplicitThemeClasses_AddOnly(cls, theme) ==
  IF theme = "dark" THEN cls \cup {DarkClass}
  ELSE IF theme = "light" THEN cls \cup {LightClass}
  ELSE cls

\* The branches of config.theme === 'dark' and === 'light'.
ExplicitThemeClasses(cls, theme) ==
  IF theme = "dark" THEN (cls \cup {DarkClass}) \ {LightClass}
  ELSE IF theme = "light" THEN (cls \cup {LightClass}) \ {DarkClass}
  ELSE cls

\* A variant that goes on whether the container holds the element or not.
HasIndicator_Always(ind) == TRUE

\* container.querySelector('#jupyterlite-loading-indicator') finds an element
HasIndicator(ind) == ind # "absent"

\* if (config.showLoadingIndicator) loadingIndicator.classList.remove('hidden')
ShowIndicator(ind, config) ==
  IF config.showLoadingIndicator /\ ind = "hidden" THEN "visible" ELSE ind

\* config.settingsStorageName || 'JupyterLite Storage'
StorageName(config) ==
  IF config.settingsStorageName = ""
    THEN DefaultStorageName
    ELSE config.settingsStorageName

\* applyThemeToContainer(container, config) is called: without a loading
\* indicator it returns at once; an explicit theme is applied; 'auto' enters
\* applyAutoTheme, which awaits import('localforage').
ApplyThemeCall(c) ==
  /\ tpc[c] \in {"idle", "done"}
  /\ \E config \in ThemeConfigs :
       /\ tcfg' = [tcfg EXCEPT ![c] = config]
       /\ tsettings' = [tsettings EXCEPT ![c] = Null]
       /\ IF ~HasIndicator(indicator[c])
            THEN /\ tpc' = [tpc EXCEPT ![c] = "done"]
                 /\ tpath' = [tpath EXCEPT ![c] = "none"]
                 /\ io' = [io EXCEPT ![c] = NoIo]
                 /\ UNCHANGED <<classes, indicator>>
            ELSE IF config.theme = "auto"
              THEN /\ tpc' = [tpc EXCEPT ![c] = "importing"]
                   /\ tpath' = [tpath EXCEPT ![c] = "none"]
                   /\ io' = [io EXCEPT ![c] = [NoIo EXCEPT !.imports = 1]]
                   /\ UNCHANGED <<classes, indicator>>
              ELSE /\ tpc' = [tpc EXCEPT ![c] = "done"]
                   /\ tpath' = [tpath EXCEPT ![c] =
                                  IF config.theme = "unset" THEN "none" ELSE "explicit"]
                   /\ io' = [io EXCEPT ![c] = NoIo]
                   /\ classes' = [classes EXCEPT ![c] =
                                    ExplicitThemeClasses(@, config.theme)]
                   /\ indicator' = [indicator EXCEPT ![c] = ShowIndicator(@, config)]
  /\ UNCHANGED <<stored, osPref>>
  /\ UNCHANGED <<regVars, loadVars, timers, reactVars>>

\* applyAutoTheme has thrown or returned: the rest of applyThemeToContainer.
\* r is the effect of the block of applyAutoTheme that ran last, path its name.
FinishAuto(c, r, path) ==
  /\ tpc' = [tpc EXCEPT ![c] = "done"]
  /\ IF r.threw
       THEN /\ classes' = [classes EXCEPT ![c] = OuterCatchClasses(r.classes)]
            /\ tpath' = [tpath EXCEPT ![c] = "outerCatch"]
            /\ UNCHANGED indicator
       ELSE /\ classes' = [classes EXCEPT ![c] = r.classes]
            /\ tpath' = [tpath EXCEPT ![c] = path]
            /\ indicator' = [indicator EXCEPT ![c] = ShowIndicator(@, tcfg[c])]

\* The import settles. When it yields the module, createInstance opens the
\* store of the config's storage name and getItem is called and awaited; when
\* the import or createInstance throws, the catch block runs.
ImportSettles(c) ==
  /\ tpc[c] = "importing"
  /\ \E outcome \in {"module", "importFails", "createThrows"} :
       IF outcome = "module"
         THEN /\ tpc' = [tpc EXCEPT ![c] = "reading"]
              /\ io' = [io EXCEPT ![c].opens = @ + 1, ![c].reads = @ + 1]
              /\ UNCHANGED <<classes, indicator, tpath>>
         ELSE /\ FinishAuto(c, AutoCatchEffect(classes[c], osPref), "catch")
              /\ io' = [io EXCEPT ![c].opens =
                          IF outcome = "createThrows" THEN @ + 1 ELSE @]
  /\ UNCHANGED <<stored, osPref, tcfg, tsettings>>
  /\ UNCHANGED <<regVars, loadVars, timers, reactVars>>

\* getItem settles: with the entry stored under the themes key of that store
\* (the try block goes on, and its matchMedia may throw into the catch block),
\* or with a rejection (the catch block runs).
ReadSettles(c) ==
  /\ tpc[c] = "reading"
  /\ \E rejects \in BOOLEAN :
       IF rejects
         THEN /\ FinishAuto(c, AutoCatchEffect(classes[c], osPref), "catch")
              /\ UNCHANGED tsettings
         ELSE LET v == stored[StorageName(tcfg[c])]
                  try == AutoTryEffect(classes[c], v, osPref)
              IN /\ tsettings' = [tsettings EXCEPT ![c] = v]
                 /\ IF try.threw
                      THEN FinishAuto(c, AutoCatchEffect(classes[c], osPref), "catch")
                      ELSE FinishAuto(c, try, "try")
  /\ UNCHANGED <<stored, osPref, tcfg, io>>
  /\ UNCHANGED <<regVars, loadVars, timers, reactVars>>

----------------------------------------------------------------------------
(* JupyterLiteComponent: the mount effect of JupyterLiteInternal. *)

\* onReady and onError as a render passes them: not passed, a function that
\* returns, a function that throws.
Callbacks == {"absent", "returns", "throws"}

\* useState(true), useState<string | null>(null), useState(false)
InitialUi == [isLoading |-> TRUE, error |-> "null", initialized |-> FALSE]

\* The message of the error a throwing onReady raises.
ReadyError == "onReady threw"

\* The body of initializeJupyterLite, which holds no await and so runs within
\* the effect: the states it leaves and the calls of onReady and of onError it
\* makes. In the try block, when mounted, isLoading and initialized are set
\* and onReady?.() is called; what onReady throws is caught, and the catch
\* block, when mounted, sets error and isLoading and calls onError?.(error).
EffectBody(u, mounted, onReady, onError) ==
  IF ~mounted
    THEN [ui |-> u, ready |-> 0, errors |-> 0]
    ELSE LET tried == [u EXCEPT !.isLoading = FALSE, !.initialized = TRUE]
         IN IF onReady = "throws"
              THEN [ui |-> [tried EXCEPT !.error = ReadyError, !.isLoading = FALSE],
                    ready |-> 1,
                    errors |-> IF onError = "absent" THEN 0 ELSE 1]
              ELSE [ui |-> tried,
                    ready |-> IF onReady = "absent" THEN 0 ELSE 1,
                    errors |-> 0]

\* The effect runs (after the cleanup of the run before it, if any): mounted
\* is set and initializeJupyterLite() is called with the callbacks of the
\* render.
EffectRuns ==
  /\ Len(effects) < MaxEffects
  /\ IF effects = <<>> THEN TRUE ELSE ~effects[Len(effects)].mounted
  /\ \E onReady \in Callbacks, onError \in Callbacks :
       LET body == EffectBody(ui, TRUE, onReady, onError)
       IN /\ effects' = Append(effects,
                               [mounted |-> TRUE, onReady |-> onReady,
                                onError |-> onError, ready |-> body.ready,
                                errors |-> body.errors])
          /\ ui' = body.ui
  /\ UNCHANGED <<regVars, loadVars, domVars, themeVars, timers>>

\* The cleanup of the latest run of the effect: mounted = false.
EffectCleanup ==
  /\ effects # <<>>
  /\ effects[Len(effects)].mounted
  /\ effects' = [effects EXCEPT ![Len(effects)].mounted = FALSE]
  /\ UNCHANGED ui
  /\ UNCHANGED <<regVars, loadVars, domVars, themeVars, timers>>

\* The component before its first effect.
ComponentInit ==
  /\ effects = <<>>
  /\ ui = InitialUi

----------------------------------------------------------------------------
\* The registry and the containers before any call.
RegistryInit ==
  /\ instances = <<>>
  /\ windowJupyter = Undefined
  /\ windowBridge = Undefined
  /\ now = 0
  /\ page = LabPage
  /\ bpc = [c \in Containers |-> "idle"]
  /\ cfg = [c \in Containers |-> NoConfig]
  /\ lastCall = NoCall

\* The page before any bootstrap, its configuration listing the descriptors
\* list; window._JUPYTERLAB is defined by the page or not (lab).
LoadInit(list, lab) ==
  /\ extensionData = list
  /\ lpc = [c \in Containers |-> "idle"]
  /\ comp = [c \in Containers |-> <<>>]
  /\ extensions = [c \in Containers |-> <<>>]
  /\ labDefined = lab
  /\ exposed = {}
  /\ headScripts = [u \in Urls |-> 0]
  /\ sharingCalls = 0
  /\ initCalls = [n \in Names |-> 0]
  /\ reasons = [c \in Containers |-> <<>>]

\* The containers' elements and the theme runs before any call.
ThemeInit(cls, ind, store, os) ==
  /\ classes = cls
  /\ indicator = ind
  /\ stored = store
  /\ osPref = os
  /\ tpc = [c \in Containers |-> "idle"]
  /\ tcfg = [c \in Containers |-> NoThemeConfig]
  /\ tsettings = [c \in Containers |-> Null]
  /\ tpath = [c \in Containers |-> "none"]
  /\ io = [c \in Containers |-> NoIo]

\* A page whose containers carry no mode class and hold no loading indicator.
PlainThemeInit ==
  ThemeInit([c \in Containers |-> {}], [c \in Containers |-> "absent"],
            [n \in StorageNames |-> Null], "light")

Init ==
  /\ RegistryInit
  /\ LoadInit(<<>>, FALSE)
  /\ PlainThemeInit
  /\ timers = NoTimers
  /\ ComponentInit

Next ==
  \/ \E c \in page : InitializeInContainerCall(c)
  \/ \E c \in page : MainResolves(c)
  \/ \E c \in page : MainRejects(c)
  \/ \E c \in page : Cleanup(c)
  \/ AppSetsGlobals
  \/ Tick

Spec == Init /\ [][Next]_vars

\* The batches of the containers of a page, each bootstrapped once, up to the
\* call of initializeInContainer.
InitLoad ==
  /\ RegistryInit
  /\ \E list \in ExtensionLists, lab \in BOOLEAN : LoadInit(list, lab)
  /\ PlainThemeInit
  /\ timers = NoTimers
  /\ ComponentInit

NextLoad ==
  \/ \E c \in page : LoadBootstrapCall(c)
  \/ \E c \in page, i \in 1..Len(extensionData) : ScriptLoaded(c, i)
  \/ \E c \in page, i \in 1..Len(extensionData) : ScriptError(c, i)
  \/ \E c \in page, i \in 1..Len(extensionData) : SharingResolved(c, i)
  \/ \E c \in page, i \in 1..Len(extensionData) : SharingRejected(c, i)
  \/ \E c \in page, i \in 1..Len(extensionData) : InitResolved(c, i)
  \/ \E c \in page, i \in 1..Len(extensionData) : InitRejected(c, i)
  \/ \E c \in page : BatchSettled(c)
  \/ \E c \in page : MainScriptLoaded(c)
  \/ \E c \in page : MainScriptError(c)

SpecLoad == InitLoad /\ [][NextLoad]_vars

\* The theme runs of the container c1, for every state of its element, of
\* the stores and of the operating system's preference.
ThemeContainer == "c1"

InitTheme ==
  /\ RegistryInit
  /\ LoadInit(<<>>, FALSE)
  /\ \E cls \in SUBSET ModeClasses, ind \in {"absent", "hidden", "visible"},
        store \in [StorageNames -> Contents], os \in OsPrefs :
       ThemeInit([c \in Containers |-> IF c = ThemeContainer THEN cls ELSE {}],
                 [c \in Containers |-> IF c = ThemeContainer THEN ind ELSE "absent"],
                 store, os)
  /\ timers = NoTimers
  /\ ComponentInit

NextTheme ==
  \/ ApplyThemeCall(ThemeContainer)
  \/ ImportSettles(ThemeContainer)
  \/ ReadSettles(ThemeContainer)

SpecTheme == InitTheme /\ [][NextTheme]_vars

\* The main entry on one page: the container c1 is bootstrapped by
\* loadJupyterLiteBootstrap (no federated extensions; its module is the one
\* loadJupyterLiteMain resolves with, whose main resolves), the container c2
\* receives calls of initializeInContainer with any module and any config.
\* A container is torn down only once it has been mounted, as the cleanup of
\* the component's effect follows the effect.
BootstrapContainer == "c1"

DirectContainer == "c2"

\* A bootstrap of c, or a run of initializeInContainer on it, has started.
Mounted(c) == lpc[c] # "idle" \/ bpc[c] # "idle"

InitMain ==
  /\ instances = <<>>
  /\ windowJupyter = Undefined
  /\ windowBridge = Undefined
  /\ now = 0
  /\ page = {BootstrapContainer, DirectContainer}
  /\ bpc = [c \in Containers |-> "idle"]
  /\ \E config \in Configs :
       cfg = [c \in Containers |->
                IF c = BootstrapContainer THEN config ELSE NoConfig]
  /\ lastCall = NoCall
  /\ LoadInit(<<>>, FALSE)
  /\ PlainThemeInit
  /\ timers = NoTimers
  /\ ComponentInit

NextMain ==
  \/ LoadBootstrapCall(BootstrapContainer)
  \/ BatchSettled(BootstrapContainer)
  \/ MainScriptLoaded(BootstrapContainer)
  \/ MainScriptError(BootstrapContainer)
  \/ InitializeInContainerCall(DirectContainer)
  \/ \E c \in page : MainResolves(c)
  \/ MainRejects(DirectContainer)
  \/ \E c \in page : Mounted(c) /\ Cleanup(c)
  \/ AppSetsGlobals

SpecMain == InitMain /\ [][NextMain]_vars

\* A page of two containers that carry no id attribute: each is mounted with
\* a module that exposes main and a config that asks for the bridge, and torn
\* down, any number of times, while time passes.
AnonPage == {"c2", "c3"}

BridgeConfig == [enableKernelBridge |-> TRUE, kernelBridgeConfig |-> "true"]

InitAnon ==
  /\ instances = <<>>
  /\ windowJupyter = Undefined
  /\ windowBridge = Undefined
  /\ now = 0
  /\ page = AnonPage
  /\ bpc = [c \in Containers |-> "idle"]
  /\ cfg = [c \in Containers |-> NoConfig]
  /\ lastCall = NoCall
  /\ LoadInit(<<>>, FALSE)
  /\ PlainThemeInit
  /\ timers = NoTimers
  /\ ComponentInit

NextAnon ==
  \/ \E c \in AnonPage : InitializeInContainer(c, "main", BridgeConfig)
  \/ \E c \in AnonPage : MainResolves(c)
  \/ \E c \in AnonPage : Cleanup(c)
  \/ AppSetsGlobals
  \/ Tick

SpecAnon == InitAnon /\ [][NextAnon]_vars

\* One container that holds a loading indicator and carries any mode classes:
\* it receives runs of initializeInContainer with any module and any config and
\* teardowns, the application installs its handles, and the timers the runs
\* set are followed. A run starts only
\* while fewer than MaxTimers callbacks are pending.
TimerContainer == "c1"

InitTimer ==
  /\ instances = <<>>
  /\ windowJupyter = Undefined
  /\ windowBridge = Undefined
  /\ now = 0
  /\ page = {TimerContainer}
  /\ bpc = [c \in Containers |-> "idle"]
  /\ cfg = [c \in Containers |-> NoConfig]
  /\ lastCall = NoCall
  /\ LoadInit(<<>>, FALSE)
  /\ \E cls \in SUBSET ModeClasses, ind \in {"hidden", "visible"} :
       ThemeInit([c \in Containers |-> IF c = TimerContainer THEN cls ELSE {}],
                 [c \in Containers |-> IF c = TimerContainer THEN ind ELSE "absent"],
                 [n \in StorageNames |-> Null], "light")
  /\ timers = [c \in {TimerContainer} |-> 0]
  /\ ComponentInit

NextTimer ==
  \/ /\ timers[TimerContainer] < MaxTimers
     /\ InitializeInContainerCall(TimerContainer)
  \/ MainResolves(TimerContainer)
  \/ MainRejects(TimerContainer)
  \/ Cleanup(TimerContainer)
  \/ AppSetsGlobals
  \/ TimerFires(TimerContainer)

SpecTimer == InitTimer /\ [][NextTimer]_vars

\* The event loop runs a callback that is due.
SpecTimerFair == SpecTimer /\ WF_vars(TimerFires(TimerContainer))

\* The component alone: its effect runs and is cleaned up, render after
\* render; it calls nothing of the loader.
InitComponent ==
  /\ RegistryInit
  /\ LoadInit(<<>>, FALSE)
  /\ PlainThemeInit
  /\ timers = NoTimers
  /\ ComponentInit

NextComponent ==
  \/ EffectRuns
  \/ EffectCleanup

SpecComponent == InitComponent /\ [][NextComponent]_vars

----------------------------------------------------------------------------
(* The instance registry and initializeInContainer: properties. *)

\* C3 (as claimed): a step that registers a container that already has a record
\* fails with a duplicate-instance error (the call throws) and leaves the size
\* of the registry unchanged, for containers with an id and without one.
C3_DuplicateRegistrationRejected ==
  [][\A c \in Containers :
       (/\ bpc[c] = "awaitMain"
        /\ bpc'[c] = "ready"
        /\ BridgeRequested(cfg[c])
        /\ RecordsOf(instances, c) # {})
       => (lastCall'.threw /\ Len(instances') = Len(instances))]_vars

\* C4: a step that removes a record and leaves the registry empty clears both
\* page-global handles and runs the global teardown once; a step that removes a
\* record and leaves other records clears nothing.
C4_LastInstanceTeardown ==
  [][Len(instances') < Len(instances)
       => /\ lastCall'.op = "cleanup"
          /\ lastCall'.removed
          /\ IF Len(instances') = 0
               THEN /\ windowJupyter' = Undefined
                    /\ windowBridge' = Undefined
                    /\ lastCall'.teardown = 1
               ELSE /\ UNCHANGED <<windowJupyter, windowBridge>>
                    /\ lastCall'.teardown = 0]_vars

\* C4 witness: a cleanup has removed a record while another record remains and
\* the page-global handles are still installed.
C4_Witness ==
  /\ lastCall.op = "cleanup"
  /\ lastCall.removed
  /\ lastCall.teardown = 0
  /\ Len(instances) > 0
  /\ windowJupyter = Handle
  /\ windowBridge = Handle

\* C5 (as claimed): in every state and for every container c, a second
\* cleanup of c right after a first one raises no error and changes neither
\* the registry nor the page-global handles.
C5_CleanupIdempotent ==
  \A c \in page :
    LET once == CleanupEffect(instances, windowJupyter, windowBridge, c)
        twice == CleanupEffect(once.instances, once.windowJupyter,
                               once.windowBridge, c)
    IN /\ ~twice.threw
       /\ twice.instances = once.instances
       /\ twice.windowJupyter = once.windowJupyter
       /\ twice.windowBridge = once.windowBridge

\* C6 (as claimed): a cleanup of a container that has no record leaves the
\* registry and the page-global handles unchanged, the registry empty or not.
C6_UnknownCleanupNoop ==
  [][\A c \in Containers :
       (RecordsOf(instances, c) = {} /\ Cleanup(c))
       => UNCHANGED <<instances, windowJupyter, windowBridge>>]_vars

\* C7: a step of an initializeInContainer run whose config has
\* enableKernelBridge false makes no registry call: it adds no record and
\* leaves the registry and the page-global handles as they are.
C7_DisabledBridgeNotRegistered ==
  [][\A c \in Containers :
       (/\ bpc[c] = "awaitMain"
        /\ bpc'[c] # "awaitMain"
        /\ ~cfg[c].enableKernelBridge)
       => UNCHANGED <<instances, windowJupyter, windowBridge, lastCall>>]_vars

\* C7 witness: a run with the bridge disabled (and exposeToConsole set) has
\* completed, its container has no record, and another container has one.
C7_Witness ==
  \E c \in Containers :
    /\ bpc[c] = "ready"
    /\ ~cfg[c].enableKernelBridge
    /\ cfg[c].kernelBridgeConfig = "true"
    /\ RecordsOf(instances, c) = {}
    /\ Len(instances) > 0

\* C8 (as claimed): a run that completes with enableKernelBridge true has
\* registered its container, whatever kernelBridgeConfig holds.
C8_EnabledBridgeRegistered ==
  [][\A c \in Containers :
       (/\ bpc[c] = "awaitMain"
        /\ bpc'[c] = "ready"
        /\ cfg[c].enableKernelBridge)
       => (/\ RecordsOf(instances', c) # {}
           /\ lastCall'.op = "register"
           /\ lastCall'.c = c)]_vars

----------------------------------------------------------------------------
(* The batch of federated extensions: properties. *)

\* The loadComponent runs of container c that ended in one of the pcs.
RunsIn(c, pcs) == {i \in 1..Len(comp[c]) : comp[c][i] \in pcs}

\* The outcomes of container c's batch that are status.
OutcomesOf(c, status) ==
  {i \in 1..Len(extensions[c]) : extensions[c][i] = status}

\* C1: the await of the batch never rejects and, once every run has settled,
\* it can end; and when it has ended with one run failed (its script errored or
\* its init rejected) and the other N runs fulfilled, the outcomes are one per
\* descriptor, N of them fulfilled and one rejected.
C1_PartialFailureTolerated ==
  \A c \in Containers :
    /\ lpc[c] # "batchRejected"
    /\ (lpc[c] = "batch" /\ AllSettledDone(comp[c])) => ENABLED BatchSettled(c)
    /\ (/\ lpc[c] \notin {"idle", "batch"}
        /\ Cardinality(RunsIn(c, {"rejScript", "rejInit"})) = 1
        /\ Cardinality(RunsIn(c, {"fulfilled"})) = Len(comp[c]) - 1)
       => /\ Len(extensions[c]) = Len(extensionData)
          /\ Cardinality(OutcomesOf(c, "fulfilled")) = Len(extensionData) - 1
          /\ Cardinality(OutcomesOf(c, "rejected")) = 1

\* C1 witness: a batch of two has ended, one run fulfilled and the init of the
\* other rejected, and the main entry script is being loaded.
C1_Witness ==
  \E c \in Containers :
    /\ lpc[c] = "mainLoad"
    /\ Len(comp[c]) = 2
    /\ Cardinality(RunsIn(c, {"fulfilled"})) = 1
    /\ Cardinality(RunsIn(c, {"rejInit"})) = 1
    /\ Cardinality(OutcomesOf(c, "rejected")) = 1

\* The loadComponent runs of the page that got past their loadScript.
RunsPastScript ==
  {r \in Containers \X (1..Len(extensionData)) :
     /\ r[2] <= Len(comp[r[1]])
     /\ comp[r[1]][r[2]] \notin {"script", "rejScript"}}

\* C2 (as claimed): however many loadComponent runs there are, on one
\* container or several, window.__webpack_init_sharing__('default') is called
\* once in total.
C2_SharingCalledOnce ==
  /\ sharingCalls <= 1
  /\ RunsPastScript # {} => sharingCalls = 1

\* C2 (amended): window.__webpack_init_sharing__('default') is called once by
\* every loadComponent run whose script has loaded: the calls made so far are
\* as many as the runs that got past loadScript.
C2_SharingCalledPerRun == sharingCalls = Cardinality(RunsPastScript)

\* C2 witness: two containers bootstrap at once, each with a batch of two, and
\* all four runs have called __webpack_init_sharing__.
C2_Witness ==
  /\ \A c \in page : lpc[c] = "batch" /\ Len(comp[c]) = 2
  /\ Cardinality(RunsPastScript) = 4
  /\ sharingCalls = 4

----------------------------------------------------------------------------
(* Theme application: properties. *)

\* The run of applyThemeToContainer on c has ended and its theme was th.
ThemeRunDone(c, th) == tpc[c] = "done" /\ tcfg[c].theme = th

C10_StoredBeatsOs ==
  \A c \in Containers :
    ThemeRunDone(c, "auto")
      => /\ tsettings[c] \in {Text(DarkBlob), Text(NightBlob)}
              => classes[c] = {DarkClass}
         /\ tsettings[c] = Text(LightBlob) => classes[c] = {LightClass}

\* C10 witness: the stored theme is JupyterLab Dark, the system prefers light,
\* and the 'auto' run has left the container dark.
C10_Witness ==
  \E c \in Containers :
    /\ ThemeRunDone(c, "auto")
    /\ tsettings[c] = Text(DarkBlob)
    /\ osPref = "light"
    /\ classes[c] = {DarkClass}

\* C11: a run with theme 'auto' whose store answered that it holds no entry
\* under the themes key leaves the container in the mode the operating system
\* prefers: dark when it prefers dark, light when it prefers light or gives
\* no answer.
C11_OsSecondTier ==
  \A c \in Containers :
    (/\ ThemeRunDone(c, "auto")
     /\ io[c].reads = 1
     /\ stored[StorageName(tcfg[c])] = Null
     /\ tpath[c] \in {"try", "outerCatch"})
    => classes[c] = {ModeClass(osPref = "dark")}

\* C11 witness: no entry is stored, the system prefers dark, and the 'auto'
\* run has left the container dark through the try block.
C11_Witness ==
  \E c \in Containers :
    /\ ThemeRunDone(c, "auto")
    /\ io[c].reads = 1
    /\ stored[StorageName(tcfg[c])] = Null
    /\ tpath[c] = "try"
    /\ osPref = "dark"
    /\ classes[c] = {DarkClass}

\* C12 (as claimed): a step that ends an 'auto' run after its store failed (the
\* import, createInstance or getItem threw) ends it without an error and leaves
\* the container in the mode the operating system prefers, or in the light mode
\* when the system gives no answer.
C12_ThemeNeverFails ==
  [][\A c \in Containers :
       (/\ tpc[c] \in {"importing", "reading"}
        /\ tpc'[c] \notin {"importing", "reading"}
        /\ tpath'[c] \in {"catch", "outerCatch"})
       => /\ tpc'[c] = "done"
          /\ classes'[c] = {ModeClass(osPref = "dark")}]_vars

\* The theme name the regular expression extracts holds word, whatever the
\* case of its letters.
HoldsWord(name, word) ==
  \E p \in 1..Len(name) :
    /\ p + Len(word) - 1 <= Len(name)
    /\ \A k \in 1..Len(word) : ToLowerChar(name[p + k - 1]) = word[k]

\* C13: a run with theme 'auto' that has read stored settings from which a
\* theme name is extracted leaves the container dark if the name holds dark,
\* night or black in any case, and light otherwise: BLACKBOARD is dark,
\* Darcula is light.
C13_DarkClassification ==
  \A c \in Containers :
    (/\ ThemeRunDone(c, "auto")
     /\ Truthy(tsettings[c])
     /\ ThemeRegexMatch(tsettings[c].text) # <<>>)
    => LET name == ThemeRegexMatch(tsettings[c].text)
           dark == \E word \in {DarkWord, NightWord, BlackWord} :
                     HoldsWord(name, word)
       IN /\ classes[c] = (IF dark THEN {DarkClass} ELSE {LightClass})
          /\ tsettings[c] = Text(BlackBlob) => classes[c] = {DarkClass}
          /\ tsettings[c] = Text(DarculaBlob) => classes[c] = {LightClass}

\* C13 witness: the stored theme is BLACKBOARD, the system prefers light, and
\* the 'auto' run has left the container dark.
C13_Witness ==
  \E c \in Containers :
    /\ ThemeRunDone(c, "auto")
    /\ tsettings[c] = Text(BlackBlob)
    /\ osPref = "light"
    /\ classes[c] = {DarkClass}

----------------------------------------------------------------------------
(* Teardown during a bootstrap, failed mounts and the registry's content:  *)
(* properties.                                                             *)

\* C14 (as claimed), on the page of SpecMain, whose container c1 is mounted
\* once: when the latest registry call is the cleanup of c1, requested after
\* its bootstrap began, that bootstrap makes no further stage transition and
\* c1 gets no record.
C14_CancelledOnUnmount ==
  [][(lastCall.op = "cleanup" /\ lastCall.c = BootstrapContainer)
       => /\ lpc'[BootstrapContainer] = lpc[BootstrapContainer]
          /\ bpc'[BootstrapContainer] = bpc[BootstrapContainer]
          /\ RecordsOf(instances', BootstrapContainer) = {}]_vars

----------------------------------------------------------------------------
(* The batch of federated extensions and the main entry: properties. *)

\* The stages of loadJupyterLiteBootstrap from loadJupyterLiteMain on.
MainStages == {"mainLoad", "initializing", "mainRejected"}

C20_BatchWait ==
  /\ \A c \in Containers :
       /\ lpc[c] \in MainStages
            => /\ Len(comp[c]) = Len(extensionData)
               /\ \A i \in 1..Len(comp[c]) : comp[c][i] \notin Pending
       /\ bpc[c] = "awaitMain" => lpc[c] = "initializing"
  /\ headScripts[BootstrapUrl]
       = Cardinality({c \in Containers : lpc[c] \in MainStages})

\* C20 witness: the second run of a batch of two settled first, both have
\* settled (one rejected) and the main entry script is loading, while the
\* batch of another container still has a pending run.
C20_Witness ==
  \E c, d \in Containers :
    /\ lpc[c] = "mainLoad"
    /\ comp[c] = <<"rejScript", "fulfilled">>
    /\ lpc[d] = "batch"
    /\ RunsIn(d, Pending) # {}
    /\ headScripts[BootstrapUrl] = 1

----------------------------------------------------------------------------
(* The main entry: properties. *)

\* C16: when the script of the main entry fails to load, the bootstrap is
\* rejected for good without a call of initializeInContainer; a call of
\* initializeInContainer with a module that exposes neither main nor default
\* fails at once; a run whose callable rejects fails; a failing step makes no
\* registry call, and a failed run does not become ready.
C16_MainEntryFailureAborts ==
  [][\A c \in Containers :
       /\ (lpc[c] = "mainLoad" /\ lpc'[c] = "mainRejected")
            => /\ bpc'[c] = bpc[c]
               /\ UNCHANGED <<instances, windowJupyter, windowBridge, lastCall>>
       /\ lpc[c] = "mainRejected"
            => /\ lpc'[c] = "mainRejected"
               /\ bpc'[c] = bpc[c]
               /\ RecordsOf(instances', c) \subseteq RecordsOf(instances, c)
       /\ (\E config \in Configs : InitializeInContainer(c, "none", config))
            => /\ bpc'[c] = "failed"
               /\ UNCHANGED <<instances, windowJupyter, windowBridge, lastCall>>
       /\ (bpc[c] = "awaitMain" /\ bpc'[c] = "failed")
            => UNCHANGED <<instances, windowJupyter, windowBridge, lastCall>>
       /\ bpc[c] = "failed" => bpc'[c] # "ready"]_vars

\* C16 witness: the main entry script of one container failed to load and no
\* run of initializeInContainer started for it; the run of another container,
\* whose config asks for the bridge, has failed and left no record.
C16_Witness ==
  /\ lpc[BootstrapContainer] = "mainRejected"
  /\ bpc[BootstrapContainer] = "idle"
  /\ BridgeRequested(cfg[BootstrapContainer])
  /\ bpc[DirectContainer] = "failed"
  /\ BridgeRequested(cfg[DirectContainer])
  /\ instances = <<>>

\* C17 (as claimed), for a bootstrap that failed at the load of the main entry
\* script, before any run of initializeInContainer: the teardown of that
\* container leaves the registry and the page-global handles as they are, which
\* is how they would be had the mount never started.
C17_FailedMountLeavesNoTrace ==
  [][\A c \in Containers :
       (/\ lpc[c] = "mainRejected"
        /\ bpc[c] = "idle"
        /\ RecordsOf(instances, c) = {}
        /\ Cleanup(c))
       => UNCHANGED <<instances, windowJupyter, windowBridge>>]_vars

\* C18 (as claimed): in every reachable state each container has at most one
\* record in the registry.
C18_OneRecordPerContainer ==
  \A c \in Containers : Cardinality(RecordsOf(instances, c)) <= 1

\* C19 (as claimed), for embeddings whose config enables the kernel bridge: a
\* step in which the bootstrap of a container without a record completes
\* successfully makes one more live embedding, so it adds one record to the
\* registry, a record of that container.
C19_RegistryCountsLive ==
  [][\A c \in Containers :
       (/\ bpc[c] = "awaitMain"
        /\ bpc'[c] = "ready"
        /\ cfg[c].enableKernelBridge
        /\ RecordsOf(instances, c) = {})
       => /\ Len(instances') = Len(instances) + 1
          /\ Cardinality(RecordsOf(instances', c)) = 1]_vars

----------------------------------------------------------------------------
(* loadComponent and loadScript: properties. *)

\* The loadComponent runs of the page for the bundle n that are in one of pcs.
BundleRuns(n, pcs) ==
  {r \in Containers \X (1..Len(extensionData)) :
     /\ r[2] <= Len(comp[r[1]])
     /\ extensionData[r[2]].name = n
     /\ comp[r[1]][r[2]] \in pcs}

\* The runs for the bundle n whose lookup finds an entry in this step: they
\* go from awaiting the shared scope to awaiting the entry's init.
RunsEnteringInit(n) ==
  {r \in BundleRuns(n, {"sharing"}) : comp'[r[1]][r[2]] = "init"}

\* C21 (as claimed): over the page's lifetime, several containers
\* bootstrapping the same extension list included, the init of every bundle is
\* invoked at most once, and once when a run awaits it or saw it reject.
C21_InitOncePerPage ==
  \A n \in Names :
    /\ initCalls[n] <= 1
    /\ BundleRuns(n, {"init", "rejInit"}) # {} => initCalls[n] = 1

\* C21 (amended): the init of a bundle is invoked once by every loadComponent
\* run whose lookup finds the bundle's entry, and by nothing else: a step
\* raises the count of a bundle by the number of its runs that go from the
\* shared scope to init in that step, and the count is never below the number
\* of runs awaiting the init or rejected by it.
C21_InitOncePerRun ==
  /\ [](\A n \in Names :
          initCalls[n] >= Cardinality(BundleRuns(n, {"init", "rejInit"})))
  /\ [][\A n \in Names :
          initCalls'[n] = initCalls[n] + Cardinality(RunsEnteringInit(n))]_vars

\* C21 witness: two containers have bootstrapped the same list and the run of
\* each for the bundle p awaits p's init, which has been invoked twice.
C21_Witness ==
  /\ Cardinality(BundleRuns("p", {"init"})) = 2
  /\ initCalls["p"] = 2

----------------------------------------------------------------------------
(* The registry under overlapping bootstraps and teardowns: properties. *)

\* C22: every step of the page that touches the registry is one whole call,
\* with no other registry call in the same step. It is a register, made by
\* the one run of initializeInContainer whose awaited main has just resolved:
\* the registry holds a record of that container, every other slot is as
\* before, and the page-global handles are as before. Or it is an unregister
\* of one container: at most one record is gone, and in the same step the
\* size check has run, so both handles are released when the registry is left
\* empty and kept otherwise, while no bootstrap has moved.
C22_RegistryMutationsAtomic ==
  [][\/ UNCHANGED <<instances, lastCall>>
     \/ \E c \in Containers :
          /\ lastCall'.op = "register"
          /\ lastCall'.c = c
          /\ bpc[c] = "awaitMain"
          /\ bpc' = [bpc EXCEPT ![c] = "ready"]
          /\ RecordsOf(instances', c) # {}
          /\ Len(instances') \in {Len(instances), Len(instances) + 1}
          /\ \A i \in 1..Len(instances) :
               instances'[i] = instances[i] \/ instances'[i].container = c
          /\ UNCHANGED <<windowJupyter, windowBridge>>
     \/ \E c \in Containers :
          /\ lastCall'.op = "cleanup"
          /\ lastCall'.c = c
          /\ lastCall'.removed = (RecordsOf(instances, c) # {})
          /\ Len(instances') =
               Len(instances) - (IF lastCall'.removed THEN 1 ELSE 0)
          /\ \A i \in 1..Len(instances') : instances'[i].container \in
               {instances[k].container : k \in 1..Len(instances)}
          /\ IF Len(instances') = 0
               THEN /\ windowJupyter' = Undefined
                    /\ windowBridge' = Undefined
                    /\ lastCall'.teardown = 1
               ELSE /\ UNCHANGED <<windowJupyter, windowBridge>>
                    /\ lastCall'.teardown = 0
          /\ UNCHANGED <<bpc, lpc>>]_vars

\* C22 witness: the two containers overlap: while the run of
\* initializeInContainer on the one awaits its main entry, the teardown of the
\* other has removed the only record and released both handles.
C22_Witness ==
  /\ bpc[DirectContainer] = "awaitMain"
  /\ lastCall.op = "cleanup"
  /\ lastCall.c = BootstrapContainer
  /\ lastCall.removed
  /\ lastCall.teardown = 1
  /\ instances = <<>>
  /\ windowJupyter = Undefined
  /\ windowBridge = Undefined

\* The containers whose bootstrap has started the loadComponent run of
\* descriptor i, and with it a call of loadScript for that descriptor's url.
CallersOf(i) == {c \in Containers : i <= Len(comp[c])}

\* C23: every call of loadScript(url) has appended one script element to the
\* head, calls with the same url included (two containers loading the same
\* descriptor leave two elements), and an error appends none (no retry); a
\* call settles once: from awaiting its script it resolves (load) or rejects
\* (error), a rejected call stays rejected, no settled call awaits its script
\* again; and the error of a rejected call carries the call's url.
C23_ScriptActivator ==
  /\ [](\A i \in 1..Len(extensionData) :
          /\ headScripts[ComponentUrl(extensionData[i])]
               = Cardinality(CallersOf(i))
          /\ \A c \in CallersOf(i) :
               comp[c][i] = "rejScript"
                 => /\ reasons[c][i].name = "Error"
                    /\ reasons[c][i].message
                         = "Failed to load script: "
                             \o ComponentUrl(extensionData[i]))
  /\ [][\A i \in 1..Len(extensionData) : \A c \in CallersOf(i) :
          /\ comp[c][i] = "script"
               => comp'[c][i] \in {"script", "sharing", "rejScript"}
          /\ comp[c][i] # "script" => comp'[c][i] # "script"
          /\ comp[c][i] = "rejScript"
               => comp'[c][i] = "rejScript" /\ reasons'[c][i] = reasons[c][i]
          /\ comp[c][i] = "script" /\ comp'[c][i] # "script"
               => headScripts' = headScripts]_vars

\* C23 witness: two containers have called loadScript with the url of p: the
\* head holds two script elements of that url, the one call has rejected with
\* the error that carries the url and the other has resolved.
C23_Witness ==
  /\ Len(extensionData) >= 1
  /\ headScripts[ComponentUrl(extensionData[1])] = 2
  /\ \E c, d \in page :
       /\ Len(comp[c]) >= 1
       /\ Len(comp[d]) >= 1
       /\ comp[c][1] = "rejScript"
       /\ reasons[c][1].message
            = "Failed to load script: /extensions/p/static/remoteEntry.p.js"
       /\ comp[d][1] = "sharing"

\* C24: within a loadComponent run the steps keep their order. The run calls
\* __webpack_init_sharing__ only in the step in which its script loads, and
\* each such step makes one call; the bundle's init is invoked only in a step
\* of a run whose shared-scope initialisation resolves (a run that got there
\* from its loaded script); and a run whose script fails makes neither call,
\* then or later.
C24_StepOrder ==
  [][/\ \A i \in 1..Len(extensionData) : \A c \in CallersOf(i) :
          /\ comp'[c][i] = "sharing" /\ comp[c][i] # "sharing"
               => comp[c][i] = "script" /\ sharingCalls' = sharingCalls + 1
          /\ comp'[c][i] = "init" /\ comp[c][i] # "init"
               => /\ comp[c][i] = "sharing"
                  /\ initCalls'[extensionData[i].name]
                       = initCalls[extensionData[i].name] + 1
          /\ comp'[c][i] = "rejScript" /\ comp[c][i] # "rejScript"
               => /\ comp[c][i] = "script"
                  /\ sharingCalls' = sharingCalls
                  /\ initCalls' = initCalls
          /\ comp[c][i] = "rejScript" => comp'[c][i] = "rejScript"
     /\ sharingCalls' # sharingCalls
          => \E i \in 1..Len(extensionData) : \E c \in CallersOf(i) :
               comp[c][i] = "script" /\ comp'[c][i] = "sharing"
     /\ initCalls' # initCalls
          => \E i \in 1..Len(extensionData) : \E c \in CallersOf(i) :
               comp[c][i] = "sharing" /\ comp'[c][i] = "init"]_vars

\* C24 witness: in one batch the script of the first descriptor has failed and
\* the run of the second has loaded its script, initialised the shared scope
\* and invoked the bundle's init: one call of each has been made on the page.
C24_Witness ==
  \E c \in page :
    /\ Len(comp[c]) = 2
    /\ comp[c][1] = "rejScript"
    /\ comp[c][2] = "init"
    /\ sharingCalls = 1
    /\ initCalls = [n \in Names |-> IF n = extensionData[2].name THEN 1 ELSE 0]

----------------------------------------------------------------------------
(* The stages of a bootstrap: properties. *)

\* C25 (as claimed): in a successful mount the theme is applied after the main
\* entry has resolved and before the bridge is registered and the mount is
\* ready: a container whose bootstrap has reached ready has had its run of
\* applyThemeToContainer, and a container is registered by a bootstrap only
\* once that run is done and its main entry has resolved.
C25_StageOrder ==
  \A c \in Containers :
    /\ lpc[c] = "initializing" /\ bpc[c] = "ready" => tpc[c] = "done"
    /\ lpc[c] = "initializing" /\ RecordsOf(instances, c) # {}
         => tpc[c] = "done" /\ bpc[c] = "ready"

\* C26: nothing but the load or the error event of a script element ends the
\* wait for it. While a plugin script of container c has fired neither, the
\* bootstrap of c stays in its batch: the await of the batch cannot end, the
\* main entry has not been invoked, and the bootstrap has neither become
\* ready nor failed; while the main entry script has fired neither, the main
\* entry has not been invoked. Meanwhile every step the bootstrap of another
\* container is waiting for can be taken, and so can a teardown of either
\* container.
C26_NoLoadTimeout ==
  \A c \in page :
    /\ RunsIn(c, {"script"}) # {}
         => /\ lpc[c] = "batch"
            /\ bpc[c] = "idle"
            /\ ~ENABLED BatchSettled(c)
    /\ lpc[c] = "mainLoad" => bpc[c] = "idle"
    /\ RunsIn(c, {"script"}) # {} \/ lpc[c] = "mainLoad"
         => /\ ENABLED Cleanup(c)
            /\ \A d \in page \ {c} :
                 /\ ENABLED Cleanup(d)
                 /\ \A j \in RunsIn(d, {"script"}) :
                      ENABLED ScriptLoaded(d, j) /\ ENABLED ScriptError(d, j)
                 /\ \A j \in RunsIn(d, {"sharing"}) :
                      ENABLED SharingResolved(d, j)
                 /\ \A j \in RunsIn(d, {"init"}) : ENABLED InitResolved(d, j)
                 /\ lpc[d] = "batch" /\ AllSettledDone(comp[d])
                      => ENABLED BatchSettled(d)
                 /\ lpc[d] = "mainLoad" => ENABLED MainScriptLoaded(d)

\* C26 witness: one plugin script of a container has fired no event while the
\* other run of its batch has settled, and meanwhile the bootstrap of the
\* other container has gone through its batch and invoked its main entry.
C26_Witness ==
  \E c, d \in page :
    /\ c # d
    /\ Len(comp[c]) = 2
    /\ comp[c][1] = "script"
    /\ comp[c][2] = "fulfilled"
    /\ lpc[c] = "batch"
    /\ lpc[d] = "initializing"
    /\ bpc[d] = "awaitMain"

----------------------------------------------------------------------------
(* Theme application: further properties. *)

\* C27: a run with theme 'auto' that has read a non-empty stored entry from
\* which no theme name can be extracted leaves the container in the light
\* mode, whatever the operating system prefers and whatever classes the
\* container carried.
C27_NamelessSettingsAreLight ==
  \A c \in Containers :
    (/\ ThemeRunDone(c, "auto")
     /\ tsettings[c].kind = "string"
     /\ Len(tsettings[c].text) > 0
     /\ ThemeRegexMatch(tsettings[c].text) = <<>>)
    => classes[c] = {LightClass}

\* C27 witness: the store holds settings that name no theme, the system
\* prefers dark, and the 'auto' run has left the container light.
C27_Witness ==
  \E c \in Containers :
    /\ ThemeRunDone(c, "auto")
    /\ tsettings[c] = Text(NoThemeBlob)
    /\ osPref = "dark"
    /\ tpath[c] = "try"
    /\ classes[c] = {LightClass}

\* C28 (as claimed): once a run of applyThemeToContainer with theme 'dark',
\* 'light' or 'auto' has ended on a container that holds a loading indicator,
\* the container carries exactly one of jp-mod-dark and jp-mod-light, whatever
\* it carried before and however the read of the settings went.
C28_ModeClassesExclusive ==
  \A c \in Containers :
    (/\ tpc[c] = "done"
     /\ tcfg[c].theme \in {"dark", "light", "auto"}
     /\ indicator[c] # "absent")
    => Cardinality(classes[c] \cap ModeClasses) = 1

\* C29: a call of applyThemeToContainer on a container that holds no loading
\* indicator returns at once, whatever the theme: the step leaves the
\* container's classes as they were, the run is over, and it has made no
\* access to the settings store.
C29_NoIndicatorNoTheme ==
  [][\A c \in Containers :
       indicator[c] = "absent"
         => /\ classes'[c] = classes[c]
            /\ indicator'[c] = "absent"
            /\ tpc'[c] \in {"idle", "done"}
            /\ io'[c] = NoIo]_vars

\* C29 witness: a run with theme 'dark' has ended on a container that holds
\* no loading indicator and carried jp-mod-light: it still carries that class
\* alone, and the store was not touched.
C29_Witness ==
  \E c \in Containers :
    /\ ThemeRunDone(c, "dark")
    /\ indicator[c] = "absent"
    /\ classes[c] = {LightClass}
    /\ io[c] = NoIo

----------------------------------------------------------------------------
(* loadComponent without a registration object: properties. *)

\* C30 (as claimed): a loadComponent run whose script has loaded and whose
\* shared-scope initialisation resolves while window._JUPYTERLAB holds no
\* object under the descriptor's name resolves in that step, with no init
\* invoked, so that its outcome in the batch is a success.
C30_MissingEntryCountsAsActivated ==
  [][\A i \in 1..Len(extensionData) : \A c \in CallersOf(i) :
       (/\ comp[c][i] = "sharing"
        /\ comp'[c][i] \notin {"sharing", "rejSharing"}
        /\ extensionData[i].name \notin exposed)
       => /\ comp'[c][i] = "fulfilled"
          /\ initCalls' = initCalls]_vars

----------------------------------------------------------------------------
(* The registry on a page of containers without id: properties. *)

\* The record at position i of the registry is gone after the step.
RecordLost(i) ==
  \A j \in 1..Len(instances') : instances'[j] # instances[i]

\* C31 (as claimed): registry calls leave the records of other containers
\* alone. A step removes at most one record, and a record of a container b
\* that is gone or replaced after a step was removed by a teardown of b, or
\* replaced by a registration of b itself; a registration of another
\* container, made at the same instant or not, never takes it away.
C31_OtherRecordsUntouched ==
  [][/\ Len(instances') >= Len(instances) - 1
     /\ \A b \in Containers : \A i \in RecordsOf(instances, b) :
          RecordLost(i)
            => \/ lastCall'.op = "cleanup" /\ lastCall'.c = b
               \/ /\ lastCall'.op = "register"
                  /\ lastCall'.c = b
                  /\ bpc[b] = "awaitMain"
                  /\ bpc'[b] = "ready"]_vars

----------------------------------------------------------------------------
(* The clean-up timer of initializeInContainer: properties. *)

\* The container carries no mode class and holds no loading indicator.
CleanedUp(c) == classes[c] \cap ModeClasses = {} /\ indicator[c] = "absent"

\* C32: the step in which a run of initializeInContainer completes
\* successfully sets one timer, and no other step sets one: not the step in
\* which the main entry rejects, nor the one in which the module exposes no
\* callable. A pending timer goes away only by firing, one at a time, so a
\* teardown of the container cancels none; the step in which it fires leaves
\* the container without jp-mod-dark and jp-mod-light and without its loading
\* indicator, and touches neither the registry nor the run. And a pending
\* timer does fire: whenever one is pending the container is eventually
\* cleaned up, and a full set of pending timers eventually shrinks.
C32_DeferredCleanup ==
  /\ [][\A c \in DOMAIN timers :
          /\ bpc[c] = "awaitMain" /\ bpc'[c] = "ready"
               => timers'[c] = timers[c] + 1
          /\ timers'[c] > timers[c]
               => bpc[c] = "awaitMain" /\ bpc'[c] = "ready"
          /\ bpc'[c] = "failed" /\ bpc[c] # "failed" => timers'[c] = timers[c]
          /\ lastCall'.op = "cleanup" /\ lastCall' # lastCall
               => timers'[c] = timers[c]
          /\ timers'[c] < timers[c]
               => /\ timers'[c] = timers[c] - 1
                  /\ classes'[c] \cap ModeClasses = {}
                  /\ indicator'[c] = "absent"
                  /\ UNCHANGED <<instances, lastCall, bpc>>]_vars
  /\ (timers[TimerContainer] > 0) ~> CleanedUp(TimerContainer)
  /\ (timers[TimerContainer] = MaxTimers) ~> (timers[TimerContainer] < MaxTimers)

\* C32 witness: the run on the container has completed, the container's
\* record has since been removed by a teardown, and the timer of the run has
\* fired: no callback is pending and the container, which held a loading
\* indicator, is cleaned up.
C32_Witness ==
  /\ bpc[TimerContainer] = "ready"
  /\ lastCall.op = "cleanup"
  /\ lastCall.c = TimerContainer
  /\ lastCall.removed
  /\ timers[TimerContainer] = 0
  /\ CleanedUp(TimerContainer)

----------------------------------------------------------------------------
(* The component's mount effect: properties. *)

\* C33 (as claimed): every run of the mount effect invokes at most one of
\* onReady and onError, at most once; and a run whose cleanup has run makes no
\* further call, and the loading, error and initialized states change only in
\* the step of a new run.
C33_CallbacksRespectUnmount ==
  /\ [](\A r \in 1..Len(effects) : effects[r].ready + effects[r].errors <= 1)
  /\ [][/\ \A r \in 1..Len(effects) :
            ~effects[r].mounted => effects'[r] = effects[r]
        /\ ui' # ui => Len(effects') = Len(effects) + 1]_vars

====
